---- MODULE Spec2Model ----
(***************************************************************************)
(* A model of E3_Streamer/player.py: the Player class.  run() is the       *)
(* producer (the calling thread); write_audio_stream and                   *)
(* write_video_stream are the two consumer threads; video_second fetches   *)
(* one second of frames and maps the super-resolution function over them   *)
(* in a thread pool.                                                       *)
(*                                                                         *)
(* External collaborators are the environment: whether next() on a source  *)
(* iterator yields or raises StopIteration, whether the enhancement of a   *)
(* frame raises, in which order the pool's tasks complete and whether a    *)
(* blocking get on an empty queue times out are nondeterministic choices.  *)
(* The sinks (the pyaudio stream, the pygame display) accept every write.  *)
(***************************************************************************)
EXTENDS Integers, Sequences, FiniteSets, TLC

\* player.py:18
BUFFER_SIZE == 8

\* Largest int(self.video.duration) of the sessions explored.
MaxDur == 10
\* Largest int(self.video.fps) of the sessions explored.
MaxFps == 2
\* How many times run() is called on the one Player, in sequence.
MaxCalls == 2

\* self.video.duration and self.video.fps are floats: the model measures
\* them in halves (of a second, of a frame per second), so that 7 is 3.5.
Whole(n) == 2 * n

\* int(x) of a float x >= 0 measured in halves, player.py:97 and 170
Floor(x) == x \div 2

\* The sessions: <<video.duration, video.fps>> of at least one frame per
\* second, both whole or both with a fractional part; the 3-second
\* 10-frames-per-second session of the end-to-end scenario is one of them.
Sessions ==
  {<<Whole(d) + h, Whole(f) + h>> : d \in 0..MaxDur, f \in 1..MaxFps,
                                    h \in {0, 1}}
    \cup {<<Whole(3), Whole(10)>>}

VARIABLES
  duration,        \* self.video.duration, in half seconds
  fps,             \* self.video.fps, in half frames per second
  running,         \* self.running
  audio_thread,    \* where self.audio_thread is in write_audio_stream
  video_thread,    \* where self.video_thread is in write_video_stream
  starts,          \* how often each Thread object began running its target
  audio_iterator,  \* chunks self.audio_iterator has yielded
  video_iterator,  \* frames self.video_iterator has yielded
  audio_queue,     \* self.audio_queue
  video_queue,     \* self.video_queue
  run_pc,          \* where the caller of run() is
  calls,           \* calls of run() so far
  outcome,         \* how each call of run() ended, in order
  it,              \* iterations of run()'s for loop begun in this call
  fetches,         \* calls of fetch_video so far
  fv_audio,        \* fetch_video's local `audio` (<<>> while unset)
  frames,          \* video_second's local `frames` before pool.map
  results,         \* the pool's result list, by task index
  pool_failed,     \* a task of the running pool.map has raised
  pool_left,       \* tasks of the running pool.map not yet completed
  wa_audio,        \* write_audio_stream's local `audio` (<<>> while unset)
  wv_batch,        \* the batch write_video_stream iterates over
  wv_idx,          \* frames of wv_batch already displayed
  stream,          \* what self.stream.write was given, in order
  screen,          \* what pygame.display.update showed, in order
  audio_put,       \* what was put on self.audio_queue, in order
  video_put        \* what was put on self.video_queue, in order

vars == <<duration, fps, running, audio_thread, video_thread, starts,
          audio_iterator, video_iterator, audio_queue, video_queue,
          run_pc, calls, outcome, it, fetches, fv_audio, frames, results,
          pool_failed, pool_left, wa_audio, wv_batch, wv_idx, stream, screen,
          audio_put, video_put>>

session  == <<duration, fps>>
shared   == <<running, audio_queue, video_queue>>
sources  == <<audio_iterator, video_iterator>>
producer == <<run_pc, calls, outcome, it, fetches, fv_audio, frames, results,
              pool_failed, pool_left, audio_put, video_put>>
pool     == <<frames, results, pool_failed, pool_left>>
audio_c  == <<audio_thread, wa_audio, stream>>
video_c  == <<video_thread, wv_batch, wv_idx, screen>>

----
\* Media values.

\* The chunk self.audio_iterator yields as its n-th: playback second n.
AudioChunk(n) == [second |-> n, form |-> "samples"]

\* audio.astype("float32").tostring(), player.py:138
ToFloat32Bytes(a) == [a EXCEPT !.form = "float32 bytes"]

\* The frame self.video_iterator yields as its n-th.
RawFrame(n) == [src |-> n, stage |-> "raw"]

\* np.asarray(Image.fromarray(frame).resize(...)) and tf.expand_dims,
\* player.py:101-107
Resize(f) == [f EXCEPT !.stage = "resized"]

\* resolution_fn(frame) when it does not raise, player.py:62-86
SuperResolve(f) == [f EXCEPT !.stage = "resolved"]

\* pygame.surfarray.make_surface(np.rot90(np.fliplr(video_frame))),
\* player.py:152-153
MakeSurface(f) == [f EXCEPT !.stage = "surface"]

\* A slot of the pool's result list whose task has not completed.
Pending == [src |-> 0, stage |-> "pending"]

----
Init ==
  /\ \E s \in Sessions : duration = s[1] /\ fps = s[2]
  /\ running = FALSE
  /\ audio_thread = "new"
  /\ video_thread = "new"
  /\ starts = [audio |-> 0, video |-> 0]
  /\ audio_iterator = 0
  /\ video_iterator = 0
  /\ audio_queue = <<>>
  /\ video_queue = <<>>
  /\ run_pc = "idle"
  /\ calls = 0
  /\ outcome = <<>>
  /\ it = 0
  /\ fetches = 0
  /\ fv_audio = <<>>
  /\ frames = <<>>
  /\ results = <<>>
  /\ pool_failed = FALSE
  /\ pool_left = 0
  /\ wa_audio = <<>>
  /\ wv_batch = <<>>
  /\ wv_idx = 0
  /\ stream = <<>>
  /\ screen = <<>>
  /\ audio_put = <<>>
  /\ video_put = <<>>

----
\* run(), player.py:161-178, with fetch_video(), player.py:119-127, and
\* video_second(), player.py:88-117, which it calls.

\* A faulty variant of SetRunning: the locked block toggles the flag.
SetRunningToggles(r) == ~r

\* A faulty variant of SetRunning: the test inverted, so the flag is never
\* set.
SetRunningInverted(r) == IF r THEN TRUE ELSE r

\* with self.lock: if not self.running: self.running = True
SetRunning(r) == IF ~r THEN TRUE ELSE r

\* A call of run() and its first locked block, player.py:165-167.  A call
\* follows the previous one's return or exception: "in sequence".
Run ==
  /\ run_pc \in {"idle", "returned", "raised"}
  /\ calls < MaxCalls
  /\ calls' = calls + 1
  /\ running' = SetRunning(running)
  /\ it' = 0
  /\ run_pc' = "start_audio"
  /\ UNCHANGED <<session, sources, audio_queue, video_queue, outcome,
                 fetches, fv_audio, pool, audio_put, video_put, audio_c,
                 video_c, starts>>

\* A faulty variant of Raised: the loop swallows e and goes on to its next
\* iteration.
RaisedAndRetried(e) ==
  /\ run_pc' = "loop"
  /\ outcome' = Append(outcome, e)
  /\ fv_audio' = <<>>
  /\ frames' = <<>>
  /\ results' = <<>>
  /\ pool_failed' = FALSE
  /\ pool_left' = 0

\* Exception e leaves run(): nothing in run(), fetch_video or video_second
\* catches it, so their frames are unwound, their locals are gone and the
\* call of run() ends.
Raised(e) ==
  /\ run_pc' = "raised"
  /\ outcome' = Append(outcome, e)
  /\ fv_audio' = <<>>
  /\ frames' = <<>>
  /\ results' = <<>>
  /\ pool_failed' = FALSE
  /\ pool_left' = 0

\* A faulty variant of CanStart: a thread that starts at every call.
CanStartAgain(t) == TRUE

\* Thread.start(): a Thread object starts once; a second start() raises
\* RuntimeError and starts nothing.
CanStart(t) == t = "new"

\* A faulty variant of StartAudio: every call of run() starts one more
\* thread on write_audio_stream.
StartAudioFresh ==
  /\ run_pc = "start_audio"
  /\ audio_thread' = IF audio_thread = "new" THEN "waiting" ELSE audio_thread
  /\ starts' = [starts EXCEPT !.audio = @ + 1]
  /\ run_pc' = "start_video"
  /\ UNCHANGED <<session, shared, sources, calls, outcome, it, fetches,
                 fv_audio, pool, audio_put, video_put, wa_audio, stream,
                 video_c>>

\* self.audio_thread.start(), player.py:168
StartAudio ==
  /\ run_pc = "start_audio"
  /\ IF CanStart(audio_thread)
       THEN /\ audio_thread' = "waiting"
            /\ starts' = [starts EXCEPT !.audio = @ + 1]
            /\ run_pc' = "start_video"
            /\ UNCHANGED <<outcome, fv_audio, pool>>
       ELSE /\ Raised("RuntimeError")
            /\ UNCHANGED <<audio_thread, starts>>
  /\ UNCHANGED <<session, shared, sources, calls, it, fetches, audio_put,
                 video_put, wa_audio, stream, video_c>>

\* self.video_thread.start(), player.py:169
StartVideo ==
  /\ run_pc = "start_video"
  /\ IF CanStart(video_thread)
       THEN /\ video_thread' = "waiting"
            /\ starts' = [starts EXCEPT !.video = @ + 1]
            /\ run_pc' = "loop"
            /\ UNCHANGED <<outcome, fv_audio, pool>>
       ELSE /\ Raised("RuntimeError")
            /\ UNCHANGED <<video_thread, starts>>
  /\ UNCHANGED <<session, shared, sources, calls, it, fetches, audio_put,
                 video_put, audio_c, wv_batch, wv_idx, screen>>

\* A faulty variant of Iterations: a partial last second gets an iteration.
IterationsRoundedUp(d) == Floor(d + 1)

\* range(int(self.video.duration)): the iterations the loop makes.
Iterations(d) == Floor(d)

\* for _ in range(int(self.video.duration)): self.fetch_video(),
\* player.py:170-173 (time.sleep(0.1) ends the previous iteration)
RunLoop ==
  /\ run_pc = "loop"
  /\ IF it < Iterations(duration)
       THEN /\ it' = it + 1
            /\ fetches' = fetches + 1
            /\ run_pc' = "fetch_audio"
       ELSE /\ run_pc' = "lock2"
            /\ UNCHANGED <<it, fetches>>
  /\ UNCHANGED <<session, shared, sources, calls, outcome, fv_audio, pool,
                 audio_put, video_put, audio_c, video_c, starts>>

\* A faulty variant of FetchAudio: the chunk is enqueued as soon as it is
\* pulled, before video_second runs.
FetchAudioEnqueues ==
  /\ run_pc = "fetch_audio"
  /\ \/ /\ audio_iterator' = audio_iterator + 1
        /\ fv_audio' = <<AudioChunk(audio_iterator + 1)>>
        /\ audio_queue' = Append(audio_queue, AudioChunk(audio_iterator + 1))
        /\ audio_put' = Append(audio_put, AudioChunk(audio_iterator + 1))
        /\ run_pc' = "fetch_frame"
        /\ UNCHANGED <<outcome, pool>>
     \/ /\ Raised("StopIteration audio")
        /\ UNCHANGED <<audio_iterator, audio_queue, audio_put>>
  /\ UNCHANGED <<session, running, video_queue, video_iterator, calls, it,
                 fetches, video_put, audio_c, video_c, starts>>

\* audio = next(self.audio_iterator), player.py:124: the next chunk, or
\* StopIteration when the audio sequence has ended.
FetchAudio ==
  /\ run_pc = "fetch_audio"
  /\ \/ /\ audio_iterator' = audio_iterator + 1
        /\ fv_audio' = <<AudioChunk(audio_iterator + 1)>>
        /\ run_pc' = "fetch_frame"
        /\ UNCHANGED <<outcome, pool>>
     \/ /\ Raised("StopIteration audio")
        /\ UNCHANGED audio_iterator
  /\ UNCHANGED <<session, shared, video_iterator, calls, it, fetches,
                 audio_put, video_put, audio_c, video_c, starts>>

\* A faulty variant of FramesPerSecond: a fractional rate rounded up.
FramesPerSecondRoundedUp(f) == Floor(f + 1)

\* for _ in range(int(self.video.fps)): the frames one second takes.
FramesPerSecond(f) == Floor(f)

\* One pass of the loop of player.py:97-107: frame =
\* next(self.video_iterator), resized and appended, or StopIteration when
\* the frames have ended.  The pass that ends the loop hands the list to
\* pool.map (player.py:114-115).
FetchFrame ==
  /\ run_pc = "fetch_frame"
  /\ \/ /\ video_iterator' = video_iterator + 1
        /\ frames' = Append(frames, Resize(RawFrame(video_iterator + 1)))
        /\ IF Len(frames') < FramesPerSecond(fps)
             THEN UNCHANGED <<run_pc, results, pool_left>>
             ELSE /\ run_pc' = "pool"
                  /\ results' = [i \in 1..Len(frames') |-> Pending]
                  /\ pool_left' = Len(frames')
        /\ UNCHANGED <<outcome, fv_audio, pool_failed>>
     \/ /\ Raised("StopIteration video")
        /\ UNCHANGED video_iterator
  /\ UNCHANGED <<session, shared, audio_iterator, calls, it, fetches,
                 audio_put, video_put, audio_c, video_c, starts>>

\* The first slot of res still pending.
FirstPending(res) ==
  CHOOSE k \in 1..Len(res) :
    res[k] = Pending /\ \A j \in 1..(k - 1) : res[j] # Pending

\* A faulty variant of StoreResult: results kept as they complete.
StoreInCompletionOrder(res, i, v) == [res EXCEPT ![FirstPending(res)] = v]

\* Where pool.map stores the result of task i: slot i of the result list,
\* whenever the task completes.
StoreResult(res, i, v) == [res EXCEPT ![i] = v]

\* A worker of ThreadPool(30) completes one task of pool.map(resolution_fn,
\* frames), player.py:114-115.  Tasks complete in any order (a second has
\* at most 30 frames here, so every order occurs).  The first task to raise
\* replaces the result list by its exception; the map waits for the others.
PoolWorker ==
  /\ run_pc = "pool"
  /\ pool_left > 0
  /\ pool_left' = pool_left - 1
  /\ \/ /\ ~pool_failed
        /\ \E i \in 1..Len(frames) :
             /\ results[i] = Pending
             /\ results' = StoreResult(results, i, SuperResolve(frames[i]))
        /\ UNCHANGED pool_failed
     \/ /\ ~pool_failed                            \* resolution_fn raises
        /\ pool_failed' = TRUE
        /\ results' = <<>>
     \/ /\ pool_failed
        /\ UNCHANGED <<results, pool_failed>>
  /\ UNCHANGED <<session, shared, sources, run_pc, calls, outcome, it,
                 fetches, fv_audio, frames, audio_put, video_put, audio_c,
                 video_c, starts>>

\* A faulty variant of PoolJoin: a failed map is swallowed and the frames
\* go on unenhanced.
PoolJoinFallsBack ==
  /\ run_pc = "pool"
  /\ pool_left = 0
  /\ frames' = IF pool_failed THEN frames ELSE results
  /\ results' = <<>>
  /\ run_pc' = "put_audio"
  /\ UNCHANGED <<session, shared, sources, calls, outcome, it, fetches,
                 fv_audio, pool_failed, pool_left, audio_put, video_put,
                 audio_c, video_c, starts>>

\* pool.map returns the result list, or raises what a task raised;
\* video_second returns the list: video = self.video_second(),
\* player.py:115-125
PoolJoin ==
  /\ run_pc = "pool"
  /\ pool_left = 0
  /\ IF pool_failed
       THEN Raised("InferenceError")
       ELSE /\ frames' = results
            /\ results' = <<>>
            /\ run_pc' = "put_audio"
            /\ UNCHANGED <<outcome, fv_audio, pool_failed, pool_left>>
  /\ UNCHANGED <<session, shared, sources, calls, it, fetches, audio_put,
                 video_put, audio_c, video_c, starts>>

\* A faulty variant of Put: a stack, not a queue.
PutFront(q, x) == <<x>> \o q

\* queue.Queue.put on a queue of no maximum size: appends, never blocks.
Put(q, x) == Append(q, x)

\* A faulty variant of PutAudio: a queue of maximum size BUFFER_SIZE, whose
\* put blocks while the queue is full.
PutAudioBounded ==
  /\ run_pc = "put_audio"
  /\ Len(audio_queue) < BUFFER_SIZE
  /\ audio_queue' = Put(audio_queue, fv_audio[1])
  /\ audio_put' = Append(audio_put, fv_audio[1])
  /\ run_pc' = "put_video"
  /\ UNCHANGED <<session, running, video_queue, sources, calls, outcome,
                 it, fetches, fv_audio, pool, video_put, audio_c, video_c,
                 starts>>

\* self.audio_queue.put(audio), player.py:126
PutAudio ==
  /\ run_pc = "put_audio"
  /\ audio_queue' = Put(audio_queue, fv_audio[1])
  /\ audio_put' = Append(audio_put, fv_audio[1])
  /\ run_pc' = "put_video"
  /\ UNCHANGED <<session, running, video_queue, sources, calls, outcome,
                 it, fetches, fv_audio, pool, video_put, audio_c, video_c,
                 starts>>

\* self.video_queue.put(video), player.py:127; fetch_video returns
PutVideo ==
  /\ run_pc = "put_video"
  /\ video_queue' = Put(video_queue, frames)
  /\ video_put' = Append(video_put, frames)
  /\ fv_audio' = <<>>
  /\ frames' = <<>>
  /\ run_pc' = "loop"
  /\ UNCHANGED <<session, running, audio_queue, sources, calls, outcome,
                 it, fetches, results, pool_failed, pool_left, audio_put,
                 audio_c, video_c, starts>>

\* The second locked block, player.py:174-176
RunLock2 ==
  /\ run_pc = "lock2"
  /\ running' = SetRunning(running)
  /\ run_pc' = "join_audio"
  /\ UNCHANGED <<session, audio_queue, video_queue, sources, calls,
                 outcome, it, fetches, fv_audio, pool, audio_put, video_put,
                 audio_c, video_c, starts>>

\* A thread that has left its target, by return or by exception.
Terminated(t) == t \in {"stopped", "error"}

\* self.audio_thread.join(), player.py:177: returns once the thread has
\* terminated, however it terminated.
JoinAudio ==
  /\ run_pc = "join_audio"
  /\ Terminated(audio_thread)
  /\ run_pc' = "join_video"
  /\ UNCHANGED <<session, shared, sources, calls, outcome, it, fetches,
                 fv_audio, pool, audio_put, video_put, audio_c, video_c,
                 starts>>

\* self.video_thread.join(), player.py:178, and the return of run()
JoinVideo ==
  /\ run_pc = "join_video"
  /\ Terminated(video_thread)
  /\ run_pc' = "returned"
  /\ outcome' = Append(outcome, "returned")
  /\ UNCHANGED <<session, shared, sources, calls, it, fetches, fv_audio,
                 pool, audio_put, video_put, audio_c, video_c, starts>>

----
\* write_audio_stream(), player.py:129-140

\* A faulty variant of BufferReady: the gate opens one item early.
BufferAlmostReady(q) == ~(Len(q) + 1 < BUFFER_SIZE)

\* while self.audio_queue.qsize() < BUFFER_SIZE: continue
BufferReady(q) == ~(Len(q) < BUFFER_SIZE)

\* One poll of the fill threshold, player.py:134-135
AudioWait ==
  /\ audio_thread = "waiting"
  /\ audio_thread' = IF BufferReady(audio_queue) THEN "check" ELSE "waiting"
  /\ UNCHANGED <<session, shared, sources, producer, wa_audio, stream,
                 video_c, starts>>

\* while self.running:, player.py:136
AudioCheck ==
  /\ audio_thread = "check"
  /\ audio_thread' = IF running THEN "get" ELSE "stopped"
  /\ UNCHANGED <<session, shared, sources, producer, wa_audio, stream,
                 video_c, starts>>

\* queue.Queue.get: the item at the head.
Front(q) == Head(q)

\* A faulty variant of AudioGet: the audio consumer takes no chunk while it
\* is ahead of the video consumer.
AudioGetInStep ==
  /\ audio_thread = "get"
  /\ audio_queue # <<>>
  /\ Len(stream) + Len(wa_audio) <= Len(video_put) - Len(video_queue)
  /\ wa_audio' = <<Front(audio_queue)>>
  /\ audio_queue' = Tail(audio_queue)
  /\ audio_thread' = "write"
  /\ UNCHANGED <<session, running, video_queue, sources, producer, stream,
                 video_c, starts>>

\* audio = self.audio_queue.get(timeout=10), player.py:137, an item there
AudioGet ==
  /\ audio_thread = "get"
  /\ audio_queue # <<>>
  /\ wa_audio' = <<Front(audio_queue)>>
  /\ audio_queue' = Tail(audio_queue)
  /\ audio_thread' = "write"
  /\ UNCHANGED <<session, running, video_queue, sources, producer, stream,
                 video_c, starts>>

\* A faulty variant of AudioTimeout: the 10 seconds counted from the call,
\* whatever the queue holds when they are over.
AudioTimeoutByClock ==
  /\ audio_thread = "get"
  /\ audio_thread' = "error"
  /\ UNCHANGED <<session, shared, sources, producer, wa_audio, stream,
                 video_c, starts>>

\* The get waited 10 seconds on an empty queue: queue.Empty, re-raised by
\* player.py:139-140, ends the thread.
AudioTimeout ==
  /\ audio_thread = "get"
  /\ audio_queue = <<>>
  /\ audio_thread' = "error"
  /\ UNCHANGED <<session, shared, sources, producer, wa_audio, stream,
                 video_c, starts>>

\* A faulty variant of AudioWrite: the fill threshold is awaited again
\* before every get.
AudioWriteRewaits ==
  /\ audio_thread = "write"
  /\ stream' = Append(stream, ToFloat32Bytes(wa_audio[1]))
  /\ wa_audio' = <<>>
  /\ audio_thread' = "waiting"
  /\ UNCHANGED <<session, shared, sources, producer, video_c, starts>>

\* self.stream.write(audio.astype("float32").tostring()), player.py:138
AudioWrite ==
  /\ audio_thread = "write"
  /\ stream' = Append(stream, ToFloat32Bytes(wa_audio[1]))
  /\ wa_audio' = <<>>
  /\ audio_thread' = "check"
  /\ UNCHANGED <<session, shared, sources, producer, video_c, starts>>

----
\* write_video_stream(), player.py:142-159

\* One poll of the fill threshold, player.py:147-148
VideoWait ==
  /\ video_thread = "waiting"
  /\ video_thread' = IF BufferReady(video_queue) THEN "check" ELSE "waiting"
  /\ UNCHANGED <<session, shared, sources, producer, wv_batch, wv_idx,
                 screen, audio_c, starts>>

\* while self.running:, player.py:149
VideoCheck ==
  /\ video_thread = "check"
  /\ video_thread' = IF running THEN "get" ELSE "stopped"
  /\ UNCHANGED <<session, shared, sources, producer, wv_batch, wv_idx,
                 screen, audio_c, starts>>

\* for video_frame in self.video_queue.get(timeout=10):, player.py:151
VideoGet ==
  /\ video_thread = "get"
  /\ video_queue # <<>>
  /\ wv_batch' = Front(video_queue)
  /\ wv_idx' = 0
  /\ video_queue' = Tail(video_queue)
  /\ video_thread' = IF Front(video_queue) = <<>> THEN "check" ELSE "show"
  /\ UNCHANGED <<session, running, audio_queue, sources, producer, screen,
                 audio_c, starts>>

\* queue.Empty after 10 seconds, re-raised by player.py:158-159
VideoTimeout ==
  /\ video_thread = "get"
  /\ video_queue = <<>>
  /\ video_thread' = "error"
  /\ UNCHANGED <<session, shared, sources, producer, wv_batch, wv_idx,
                 screen, audio_c, starts>>

\* The frame the loop over the batch takes after k frames.
NextFrame(batch, k) == batch[k + 1]

\* One pass of the loop body, player.py:152-157: the frame is made a
\* surface, drawn, and pygame.display.update() shows it; then the sleep.
VideoShow ==
  /\ video_thread = "show"
  /\ screen' = Append(screen, MakeSurface(NextFrame(wv_batch, wv_idx)))
  /\ IF wv_idx + 1 < Len(wv_batch)
       THEN /\ wv_idx' = wv_idx + 1
            /\ UNCHANGED <<wv_batch, video_thread>>
       ELSE /\ wv_idx' = 0
            /\ wv_batch' = <<>>
            /\ video_thread' = "check"
  /\ UNCHANGED <<session, shared, sources, producer, audio_c, starts>>

----
Next ==
  \/ Run \/ StartAudio \/ StartVideo \/ RunLoop
  \/ FetchAudio \/ FetchFrame \/ PoolWorker \/ PoolJoin
  \/ PutAudio \/ PutVideo \/ RunLock2 \/ JoinAudio \/ JoinVideo
  \/ AudioWait \/ AudioCheck \/ AudioGet \/ AudioTimeout \/ AudioWrite
  \/ VideoWait \/ VideoCheck \/ VideoGet \/ VideoTimeout \/ VideoShow

Spec == Init /\ [][Next]_vars

----
\* What the properties below speak of.

\* int(self.video.fps): the frames of one playback second.
F == Floor(fps)

\* Chunks the audio consumer has taken off its queue.
AudioTaken == Len(stream) + Len(wa_audio)

\* Batches the video consumer has taken off its queue.
VideoTaken == Len(video_put) - Len(video_queue)

\* Some call of run() ended with e.
Ended(e) == \E c \in 1..Len(outcome) : outcome[c] = e

\* The producer enqueues nothing more: it waits in a join, or run() is over
\* (a later call of run() raises at its first thread start).
ProducerDone == run_pc \in {"join_audio", "join_video", "returned", "raised"}

\* A consumer that takes nothing more: its thread has terminated, or it
\* polls a threshold that a finished producer never fills.
ConsumerDone(t, q) == Terminated(t) \/ (t = "waiting" /\ ~BufferReady(q))

\* Nothing more is enqueued, dequeued or written.
Final ==
  /\ ProducerDone
  /\ ConsumerDone(audio_thread, audio_queue)
  /\ ConsumerDone(video_thread, video_queue)

\* The frames of b are consecutive frames of the source, in source order.
SourceOrder(b) == \A k \in 1..(Len(b) - 1) : b[k + 1].src = b[k].src + 1

----
\* C1: neither consumer dequeues or calls its sink before its queue has
\* held BUFFER_SIZE items, that is before the producer's 8th enqueue on it.
C1_NoDrainBeforeThreshold ==
  /\ (AudioTaken > 0 \/ audio_thread \in {"get", "write"})
       => Len(audio_put) >= BUFFER_SIZE
  /\ (VideoTaken > 0 \/ Len(screen) > 0 \/ video_thread \in {"get", "show"})
       => Len(video_put) >= BUFFER_SIZE

\* Both consumers have called their sinks.
C1_Witness == Len(stream) > 0 /\ Len(screen) > 0

\* C2 as stated: every call of run() makes exactly floor(duration)
\* iterations, each enqueuing one chunk and one batch.
C2_EveryRunIterates ==
  (calls = 1 /\ run_pc \in {"returned", "raised"})
    => /\ fetches = Floor(duration)
       /\ Len(audio_put) = fetches
       /\ Len(video_put) = fetches

\* C2 amended: a call of run() whose loop no exception ends has made exactly
\* floor(duration) iterations (fetch_video calls); every iteration that
\* completed has enqueued exactly one chunk and one batch; and no call makes
\* more than floor(duration) iterations.
C2_CompletedRunIterates ==
  /\ (calls = 1 /\ run_pc \in {"lock2", "join_audio", "join_video", "returned"})
       => /\ it = Floor(duration)
          /\ fetches = Floor(duration)
          /\ Len(audio_put) = Floor(duration)
          /\ Len(video_put) = Floor(duration)
  /\ (calls = 1 /\ run_pc = "loop")
       => (fetches = it /\ Len(audio_put) = it /\ Len(video_put) = it)
  /\ it <= Floor(duration)
  /\ fetches <= Floor(duration)

\* run() has returned from a session of fractional duration that played.
C2_Witness ==
  /\ run_pc = "returned"
  /\ calls = 1
  /\ duration = Whole(Floor(duration)) + 1
  /\ Floor(duration) >= BUFFER_SIZE
  /\ Len(video_put) = Floor(duration)

\* C3: the session of 3 seconds at 10 frames per second in which nothing
\* fails enqueues exactly 3 chunks and 3 batches of 10 frames, and has
\* displayed exactly 30 frames when nothing more can happen.
C3_EndToEnd ==
  (duration = Whole(3) /\ fps = Whole(10) /\ calls = 1 /\ run_pc # "raised")
    => /\ ProducerDone
            => /\ Len(audio_put) = 3
               /\ Len(video_put) = 3
               /\ \A i \in 1..Len(video_put) : Len(video_put[i]) = 10
       /\ Len(screen) <= 30
       /\ Final => Len(screen) = 30

\* C4: each queue is FIFO in time-ascending order: the i-th item pushed is
\* the item of playback second i, and the i-th item a consumer takes and
\* hands to its sink is the i-th item pushed.
C4_FifoOrder ==
  /\ \A i \in 1..Len(audio_put) : audio_put[i] = AudioChunk(i)
  /\ \A i \in 1..Len(video_put) :
       \A k \in 1..Len(video_put[i]) : video_put[i][k].src = (i - 1) * F + k
  /\ AudioTaken + Len(audio_queue) = Len(audio_put)
  /\ \A i \in 1..Len(stream) : stream[i] = ToFloat32Bytes(audio_put[i])
  /\ wa_audio # <<>> => wa_audio[1] = audio_put[Len(stream) + 1]
  /\ \A j \in 1..Len(audio_queue) : audio_queue[j] = audio_put[AudioTaken + j]
  /\ VideoTaken >= 0
  /\ \A j \in 1..Len(video_queue) : video_queue[j] = video_put[VideoTaken + j]
  /\ wv_batch # <<>> => wv_batch = video_put[VideoTaken]
  /\ \A j \in 1..Len(screen) :
       screen[j] =
         MakeSurface(video_put[((j - 1) \div F) + 1][((j - 1) % F) + 1])

\* Both consumers are in their second item or later, with items waiting.
C4_Witness ==
  /\ Len(stream) >= 2
  /\ Len(screen) > F
  /\ Len(audio_queue) >= 2
  /\ Len(video_queue) >= 2

C6_NoPartialBatch ==
  (pool_failed \/ Ended("InferenceError"))
    => /\ Len(video_put) = fetches - 1
       /\ \A i \in 1..Len(video_put) :
            \A k \in 1..Len(video_put[i]) :
              video_put[i][k].src <= (fetches - 1) * F
       /\ \A j \in 1..Len(screen) : screen[j].src <= (fetches - 1) * F
       /\ \A k \in 1..Len(wv_batch) : wv_batch[k].src <= (fetches - 1) * F

\* run() has ended with the enhancement's exception while earlier batches
\* are displayed.
C6_Witness == Ended("InferenceError") /\ Len(screen) > 0

\* C7: when a consumer thread has ended with an error, run() does not
\* return normally.
C7_ConsumerErrorFailsRun ==
  Ended("returned") => (audio_thread # "error" /\ video_thread # "error")

\* C8: after two calls of run() in sequence self.running is true and each
\* consumer thread has been started once.
C8_StartOnce ==
  /\ calls >= 1 => running
  /\ starts.audio <= 1
  /\ starts.video <= 1
  /\ calls >= 2 => starts = [audio |-> 1, video |-> 1]

\* The second call of run() has ended.
C8_Witness ==
  /\ calls = 2
  /\ Len(outcome) = 2
  /\ running
  /\ starts = [audio |-> 1, video |-> 1]

\* C9: every chunk and every batch enqueued is consumed exactly once: it is
\* never written or displayed twice, and when nothing more can happen it
\* has been written or displayed.
C9_ConsumedExactlyOnce ==
  /\ \A i, j \in 1..Len(stream) : stream[i] = stream[j] => i = j
  /\ \A i, j \in 1..Len(screen) : screen[i] = screen[j] => i = j
  /\ Final => /\ Len(stream) = Len(audio_put)
              /\ Len(screen) = Len(video_put) * F

\* C10: when the audio sequence ends early the producer fails in that
\* iteration for good: no later iteration runs, neither queue gets an item
\* in or after it, and the video source is not advanced in it.
C10_AudioEndIsFatal ==
  Ended("StopIteration audio")
    => /\ run_pc \in {"raised", "start_audio"}
       /\ fetches <= Floor(duration)
       /\ audio_iterator = fetches - 1
       /\ video_iterator = (fetches - 1) * F
       /\ Len(audio_put) = fetches - 1
       /\ Len(video_put) = fetches - 1

\* The audio sequence has ended after the consumers began to play.
C10_Witness ==
  /\ Ended("StopIteration audio")
  /\ fetches > BUFFER_SIZE
  /\ Len(stream) > 0

\* C11: a consumer whose get times out ends with an error and calls its
\* sink no more; a get times out only on an empty queue, so the queue is
\* empty at the moment the consumer ends by timeout.
C11_TimeoutOnlyWhenEmpty ==
  [][/\ (audio_thread # "error" /\ audio_thread' = "error")
          => (audio_thread = "get" /\ audio_queue = <<>> /\ audio_queue' = <<>>)
     /\ (video_thread # "error" /\ video_thread' = "error")
          => (video_thread = "get" /\ video_queue = <<>> /\ video_queue' = <<>>)
     /\ audio_thread = "error"
          => (audio_thread' = "error" /\ stream' = stream
              /\ Len(audio_queue') >= Len(audio_queue))
     /\ video_thread = "error"
          => (video_thread' = "error" /\ screen' = screen
              /\ Len(video_queue') >= Len(video_queue))]_vars

\* Both consumers have played and ended by timeout, and the producer has
\* enqueued more since the audio consumer ended.
C11_Witness ==
  /\ audio_thread = "error"
  /\ video_thread = "error"
  /\ Len(stream) > 0
  /\ Len(screen) > 0
  /\ audio_queue # <<>>

\* C12: every batch enqueued on the video queue has exactly int(fps) frames
\* (the claim excepts the last second; the code makes no exception).
C12_BatchLength ==
  /\ \A i \in 1..Len(video_put) : Len(video_put[i]) = Floor(fps)
  /\ \A j \in 1..Len(video_queue) : Len(video_queue[j]) = Floor(fps)
  /\ wv_batch # <<>> => Len(wv_batch) = Floor(fps)

\* Every second of a session of fractional frame rate is enqueued, the last
\* second too.
C12_Witness ==
  /\ fps = Whole(Floor(fps)) + 1
  /\ Floor(duration) >= 2
  /\ Len(video_put) = Floor(duration)

\* C13: self.running starts false, is true from the first locked block of
\* run() on, no step sets it back to false, and the locked block after the
\* loop leaves it as it is.
C13_RunningMonotone ==
  /\ [](calls = 0 <=> ~running)
  /\ [][/\ running => running'
        /\ run_pc = "lock2" => running' = running]_vars

\* The block after the loop has run, with both consumers past their gates.
C13_Witness ==
  /\ run_pc = "join_audio"
  /\ running
  /\ audio_thread \notin {"new", "waiting"}
  /\ video_thread \notin {"new", "waiting"}

\* C14: the audio sink is written only by the audio consumer thread and the
\* display only by the video consumer thread, and each of the two is one
\* thread, so no two threads are ever in a write to the same sink.
C14_OneWriterPerSink ==
  /\ [](starts.audio <= 1 /\ starts.video <= 1)
  /\ [][/\ stream' # stream
             => /\ audio_thread = "write"
                /\ audio_thread' # "write"
                /\ video_thread' = video_thread
                /\ run_pc' = run_pc
                /\ screen' = screen
        /\ screen' # screen
             => /\ video_thread = "show"
                /\ audio_thread' = audio_thread
                /\ run_pc' = run_pc
                /\ stream' = stream]_vars

\* The two consumers are in their writes at the same time, each to its own
\* sink.
C14_Witness ==
  /\ audio_thread = "write"
  /\ video_thread = "show"
  /\ starts = [audio |-> 1, video |-> 1]

\* C15: in every session both consumer threads have terminated and run()
\* has returned from joining them when nothing more can happen.
C15_EverySessionTerminates ==
  Final => /\ Terminated(audio_thread)
           /\ Terminated(video_thread)
           /\ Ended("returned")

\* C16: no consumer leaves its streaming loop by reading self.running
\* false: the flag is true whenever a consumer thread exists to read it, so
\* no thread ever stops that way.
C16_NeverStopped ==
  /\ audio_thread # "stopped"
  /\ video_thread # "stopped"
  /\ audio_thread # "new" => running
  /\ video_thread # "new" => running

\* Both consumers have evaluated the guard many times and left the loop by
\* the exception of a timed-out get.
C16_Witness ==
  /\ audio_thread = "error"
  /\ video_thread = "error"
  /\ Len(stream) >= BUFFER_SIZE
  /\ VideoTaken >= BUFFER_SIZE
  /\ wv_batch = <<>>

\* C17: nothing orders the two consumers against each other: a consumer at
\* its get with an item in its own queue, or at its write, can take its
\* step whatever the other consumer has done, so the counts of chunks
\* written and batches taken drift apart by two and more.
C17_NoCrossQueueOrdering ==
  /\ (audio_thread = "get" /\ audio_queue # <<>>) => ENABLED AudioGet
  /\ audio_thread = "write" => ENABLED AudioWrite
  /\ (video_thread = "get" /\ video_queue # <<>>) => ENABLED VideoGet
  /\ video_thread = "show" => ENABLED VideoShow

\* In a session of 10 seconds or more the audio consumer has written 2
\* chunks more than the video consumer has taken batches.
C17_Witness ==
  /\ Floor(duration) >= 10
  /\ Len(stream) >= VideoTaken + 2

\* The same with the video consumer ahead.
C17_WitnessVideoAhead ==
  /\ Floor(duration) >= 10
  /\ VideoTaken >= AudioTaken + 2

\* A step of run() before its joins.
ProducerStep ==
  \/ StartAudio \/ StartVideo \/ RunLoop \/ FetchAudio \/ FetchFrame
  \/ PoolWorker \/ PoolJoin \/ PutAudio \/ PutVideo \/ RunLock2

\* C18: the queues exert no back-pressure: a put is never blocked, run()
\* can always take its next step until its joins, whatever the consumers
\* do, and no queue is ever deeper than floor(duration).
C18_NoBackPressure ==
  /\ run_pc = "put_audio" => ENABLED PutAudio
  /\ run_pc = "put_video" => ENABLED PutVideo
  /\ run_pc \in {"start_audio", "start_video", "loop", "fetch_audio",
                 "fetch_frame", "pool", "put_audio", "put_video", "lock2"}
       => ENABLED ProducerStep
  /\ Len(audio_queue) <= Floor(duration)
  /\ Len(video_queue) <= Floor(duration)

\* The producer has completed all its iterations while neither consumer
\* has taken an item: both queues are floor(duration) deep.
C18_Witness ==
  /\ run_pc = "join_audio"
  /\ Floor(duration) > BUFFER_SIZE
  /\ Len(audio_queue) = Floor(duration)
  /\ Len(video_queue) = Floor(duration)
  /\ AudioTaken = 0
  /\ VideoTaken = 0

\* C19: the items ever put on the audio queue are as many as those put on
\* the video queue, or one more, and as many unless the producer is between
\* its two puts; video_second fails before either put, so the chunk pulled
\* in the failing iteration is enqueued nowhere.
C19_PutsInStep ==
  /\ Len(audio_put) - Len(video_put) \in {0, 1}
  /\ Len(audio_put) - Len(video_put) = 1 <=> run_pc = "put_video"
  /\ (pool_failed \/ Ended("InferenceError") \/ Ended("StopIteration video"))
       => /\ audio_iterator = fetches
          /\ Len(audio_put) = fetches - 1
          /\ Len(video_put) = fetches - 1
          /\ \A i \in 1..Len(audio_put) : audio_put[i].second < fetches

\* The frames have ended in a later iteration, after its chunk was pulled.
C19_Witness ==
  /\ Ended("StopIteration video")
  /\ fetches >= 2
  /\ audio_iterator = fetches
  /\ Len(audio_put) = fetches - 1

\* C20: the fill threshold is a gate passed once and opened by the producer
\* alone: while fewer than BUFFER_SIZE items have been put on a queue its
\* consumer polls, takes nothing and writes nothing, and a session of
\* floor(duration) < BUFFER_SIZE never has more; a consumer past the gate
\* never polls the threshold again and takes items at any depth.
C20_OneTimeGate ==
  /\ [](/\ Len(audio_put) < BUFFER_SIZE
             => /\ audio_thread \in {"new", "waiting"}
                /\ AudioTaken = 0
                /\ stream = <<>>
        /\ Len(video_put) < BUFFER_SIZE
             => /\ video_thread \in {"new", "waiting"}
                /\ VideoTaken = 0
                /\ screen = <<>>
        /\ Floor(duration) < BUFFER_SIZE
             => (Len(audio_put) < BUFFER_SIZE /\ Len(video_put) < BUFFER_SIZE))
  /\ [][/\ (audio_thread = "waiting" /\ audio_thread' # "waiting")
             => Len(audio_queue) >= BUFFER_SIZE
        /\ (video_thread = "waiting" /\ video_thread' # "waiting")
             => Len(video_queue) >= BUFFER_SIZE
        /\ audio_thread \notin {"new", "waiting"} => audio_thread' # "waiting"
        /\ video_thread \notin {"new", "waiting"} => video_thread' # "waiting"
        /\ Len(audio_queue') > Len(audio_queue) => run_pc = "put_audio"
        /\ Len(video_queue') > Len(video_queue) => run_pc = "put_video"
        /\ (audio_thread = "get" /\ audio_thread' = "write")
             => Len(audio_queue') = Len(audio_queue) - 1
        /\ (video_thread = "get" /\ video_thread' = "show")
             => Len(video_queue') = Len(video_queue) - 1]_vars

\* Past their gates, both consumers have taken the last item of their
\* queues, far below the threshold.
C20_Witness ==
  /\ audio_thread = "write"
  /\ audio_queue = <<>>
  /\ video_thread = "show"
  /\ video_queue = <<>>

====
